---- MODULE Spec2Model ----
(***************************************************************************)
(* The todo command-line task list: src/src/lib.rs.                        *)
(*                                                                         *)
(* Text is modelled as sequences of one-character strings, so that          *)
(* formatting a date, writing a line, splitting a file into lines,          *)
(* trimming and parsing are computed character by character.                *)
(***************************************************************************)
EXTENDS Integers, Sequences, FiniteSets, TLC

\* ------------------------------------------------------------------ bounds
\* The longest task list the model builds (add is not taken beyond it).
MaxTasks == 2

\* ------------------------------------------------------------- characters
DigitChars == <<"0", "1", "2", "3", "4", "5", "6", "7", "8", "9">>

IsDigit(c) == \E n \in 1..10 : DigitChars[n] = c

DigitVal(c) == (CHOOSE n \in 1..10 : DigitChars[n] = c) - 1

\* char::is_whitespace, on the characters the model uses
IsWhitespace(c) == c \in {" ", "\t", "\r", "\n"}

\* s without its first n characters
Drop(s, n) == SubSeq(s, n + 1, Len(s))

\* str::trim_start
RECURSIVE TrimStart(_)
TrimStart(s) ==
    IF s # <<>> /\ IsWhitespace(Head(s)) THEN TrimStart(Tail(s)) ELSE s

\* str::trim_end
RECURSIVE TrimEnd(_)
TrimEnd(s) ==
    IF s # <<>> /\ IsWhitespace(s[Len(s)])
    THEN TrimEnd(SubSeq(s, 1, Len(s) - 1))
    ELSE s

\* str::trim
Trim(s) == TrimEnd(TrimStart(s))

\* The index of the first occurrence of character c in s, 0 when absent
FirstIndex(s, c) ==
    IF \E i \in 1..Len(s) : s[i] = c
    THEN CHOOSE i \in 1..Len(s) : s[i] = c /\ \A j \in 1..(i - 1) : s[j] # c
    ELSE 0

\* A mutant of SplitOnce: the line is split at its last comma
SplitOnce_last(line) ==
    IF \A i \in 1..Len(line) : line[i] # ","
    THEN [date_text |-> <<>>, name |-> line]
    ELSE LET i == CHOOSE k \in 1..Len(line) :
                      line[k] = "," /\ \A j \in (k + 1)..Len(line) : line[j] # ","
         IN  [date_text |-> SubSeq(line, 1, i - 1), name |-> SubSeq(line, i + 1, Len(line))]

\* str::split_once(',') with the fallback ("", line) of load
SplitOnce(line) ==
    LET i == FirstIndex(line, ",")
    IN  IF i = 0
        THEN [date_text |-> <<>>, name |-> line]
        ELSE [date_text |-> SubSeq(line, 1, i - 1), name |-> Drop(line, i)]

\* str::lines: the text split at line feeds; a final empty piece is not a line
RECURSIVE Lines(_)
Lines(text) ==
    IF text = <<>> THEN <<>>
    ELSE LET i == FirstIndex(text, "\n")
         IN  IF i = 0 THEN <<text>>
             ELSE <<SubSeq(text, 1, i - 1)>> \o Lines(Drop(text, i))

\* ------------------------------------------------------------------ dates
\* chrono::NaiveDate as year, month, day
Date(y, m, d) == [y |-> y, m |-> m, d |-> d]

\* NaiveDate::MAX, the sentinel of a task without a due date
MaxYear == 262142
MAX == Date(MaxYear, 12, 31)

IsLeap(y) == (y % 4 = 0 /\ y % 100 # 0) \/ y % 400 = 0

DaysInMonth(y, m) ==
    IF m = 2 THEN (IF IsLeap(y) THEN 29 ELSE 28)
    ELSE IF m \in {4, 6, 9, 11} THEN 30 ELSE 31

\* NaiveDate::from_ymd_opt: is (y, m, d) a date chrono represents
ValidDate(y, m, d) ==
    /\ y >= 0 - MaxYear - 1 /\ y <= MaxYear
    /\ m >= 1 /\ m <= 12
    /\ d >= 1 /\ d <= DaysInMonth(y, m)

\* NaiveDate's derived ordering: by year, then month, then day
DateLess(a, b) ==
    \/ a.y < b.y
    \/ a.y = b.y /\ a.m < b.m
    \/ a.y = b.y /\ a.m = b.m /\ a.d < b.d

DateLeq(a, b) == a = b \/ DateLess(a, b)

\* The decimal digits of n >= 0
RECURSIVE Decimal(_)
Decimal(n) ==
    IF n < 10 THEN <<DigitChars[n + 1]>>
    ELSE Decimal(n \div 10) \o <<DigitChars[(n % 10) + 1]>>

\* s padded on the left with zeros to at least w characters
RECURSIVE ZeroPad(_, _)
ZeroPad(s, w) == IF Len(s) >= w THEN s ELSE ZeroPad(<<"0">> \o s, w)

\* %Y of format: four digits, and a sign in front when the year is not 0..9999
FormatYear(y) ==
    IF y >= 0 /\ y <= 9999 THEN ZeroPad(Decimal(y), 4)
    ELSE IF y < 0 THEN <<"-">> \o ZeroPad(Decimal(0 - y), 4)
    ELSE <<"+">> \o ZeroPad(Decimal(y), 4)

\* date.format("%Y-%m-%d").to_string()
FormatDate(date) ==
    FormatYear(date.y) \o <<"-">> \o ZeroPad(Decimal(date.m), 2)
        \o <<"-">> \o ZeroPad(Decimal(date.d), 2)

\* The number of leading digits of s, at most max
RECURSIVE DigitRun(_, _)
DigitRun(s, max) ==
    IF max = 0 \/ s = <<>> \/ ~IsDigit(Head(s)) THEN 0
    ELSE 1 + DigitRun(Tail(s), max - 1)

\* The value of a sequence of digits
RECURSIVE DigitsValue(_)
DigitsValue(s) ==
    IF s = <<>> THEN 0
    ELSE DigitsValue(SubSeq(s, 1, Len(s) - 1)) * 10 + DigitVal(s[Len(s)])

\* chrono's scan::number: between 1 and max leading digits of s
ScanNumber(s, max) ==
    LET n == DigitRun(s, max)
    IN  [ok |-> n >= 1, val |-> DigitsValue(SubSeq(s, 1, n)), rest |-> Drop(s, n)]

\* %Y of parse: leading whitespace is skipped; with a sign any number of
\* digits, without one at most four
ScanYear(s0) ==
    LET s == TrimStart(s0)
    IN  IF s # <<>> /\ Head(s) = "-"
        THEN LET r == ScanNumber(Tail(s), Len(s))
             IN  [ok |-> r.ok, val |-> 0 - r.val, rest |-> r.rest]
        ELSE IF s # <<>> /\ Head(s) = "+"
        THEN ScanNumber(Tail(s), Len(s))
        ELSE ScanNumber(s, 4)

\* %m and %d of parse: leading whitespace is skipped, one or two digits
ScanTwo(s) == ScanNumber(TrimStart(s), 2)

\* The literal "-" of the format
ScanDash(s) == [ok |-> s # <<>> /\ Head(s) = "-", rest |-> IF s = <<>> THEN s ELSE Tail(s)]

NoDate == [ok |-> FALSE, date |-> MAX]

\* NaiveDate::parse_from_str(text, "%Y-%m-%d"): ok is FALSE for Err
ParseDate(text) ==
    LET yr == ScanYear(text)
    IN  IF ~yr.ok THEN NoDate ELSE
    LET d1 == ScanDash(yr.rest)
    IN  IF ~d1.ok THEN NoDate ELSE
    LET mo == ScanTwo(d1.rest)
    IN  IF ~mo.ok THEN NoDate ELSE
    LET d2 == ScanDash(mo.rest)
    IN  IF ~d2.ok THEN NoDate ELSE
    LET dy == ScanTwo(d2.rest)
    IN  IF ~dy.ok \/ dy.rest # <<>> THEN NoDate
        ELSE IF ~ValidDate(yr.val, mo.val, dy.val) THEN NoDate
        ELSE [ok |-> TRUE, date |-> Date(yr.val, mo.val, dy.val)]

\* A mutant of ParseDueDate: a text that is no date gives the default date
ParseDueDate_default(text) ==
    LET r == ParseDate(text) IN IF r.ok THEN r.date ELSE Date(1970, 1, 1)

\* parse_from_str(..).unwrap_or_else(|_| NaiveDate::MAX)
ParseDueDate(text) == LET r == ParseDate(text) IN IF r.ok THEN r.date ELSE MAX

\* ------------------------------------------------------------- Task Store
\* struct Task
Task(name, due_date, order) == [name |-> name, due_date |-> due_date, order |-> order]

\* A mutant of cmp_less: the due date is not compared
cmp_order_only(a, b) == a.order < b.order

\* impl Ord for Task: by due date, then by order; TRUE when a sorts before b
cmp_less(a, b) ==
    \/ DateLess(a.due_date, b.due_date)
    \/ a.due_date = b.due_date /\ a.order < b.order

\* The file at the list's path: whether it exists, and its text
NoFile == [exists |-> FALSE, text |-> <<>>]
FileOf(text) == [exists |-> TRUE, text |-> text]

\* fs::read_to_string(path).unwrap_or_default()
read_to_string(f) == IF f.exists THEN f.text ELSE <<>>

\* The loop of load over the lines that are left; order is the next order
RECURSIVE load_lines(_, _)
load_lines(ls, order) ==
    IF ls = <<>> THEN <<>>
    ELSE LET line == Trim(Head(ls))
         IN  IF line = <<>> THEN load_lines(Tail(ls), order)
             ELSE LET parts == SplitOnce(line)
                  IN  <<Task(parts.name, ParseDueDate(parts.date_text), order)>>
                          \o load_lines(Tail(ls), order + 1)

\* TodoList::load: the tasks of the list loaded from file f
load(f) == load_lines(Lines(read_to_string(f)), 1)

\* The line save writes for one task, with its line feed
save_line(task) == FormatDate(task.due_date) \o <<",">> \o task.name \o <<"\n">>

\* What save writes for the tasks ts, in order
RECURSIVE save_text(_)
save_text(ts) == IF ts = <<>> THEN <<>> ELSE save_line(Head(ts)) \o save_text(Tail(ts))

\* A mutant of update_order: the orders are left as they were
update_order_stale(ts) == ts

\* TodoList::update_order
update_order(ts) == [i \in 1..Len(ts) |-> [ts[i] EXCEPT !.order = i]]

\* A mutant of add: the order of the new task is the old length
add_order_len(ts, name, due_date) == Append(ts, Task(name, due_date, Len(ts)))

\* TodoList::add
add(ts, name, due_date) == Append(ts, Task(name, due_date, Len(ts) + 1))

\* Vec::remove(index), index zero-based
vec_remove(ts, index) == SubSeq(ts, 1, index) \o SubSeq(ts, index + 2, Len(ts))

\* A mutant of vec_insert: the element at index is overwritten
vec_insert_over(ts, index, x) ==
    IF index < Len(ts) THEN [ts EXCEPT ![index + 1] = x] ELSE Append(ts, x)

\* Vec::insert(index, x), index zero-based
vec_insert(ts, index, x) == SubSeq(ts, 1, index) \o <<x>> \o SubSeq(ts, index + 1, Len(ts))

\* A mutant of remove_rejects: the check is off by one
remove_rejects_above(ts, index) == index > Len(ts)

\* The bounds check of TodoList::remove
remove_rejects(ts, index) == index >= Len(ts)

\* A mutant of remove: the orders are not recomputed
remove_no_renumber(ts, index) == vec_remove(ts, index)

\* TodoList::remove past its bounds check
remove(ts, index) == update_order(vec_remove(ts, index))

\* The bounds check of TodoList::reorder
reorder_rejects(ts, from, to) == from >= Len(ts) \/ to >= Len(ts)

\* A mutant of reorder: the tasks at from and to are swapped
reorder_swap(ts, from, to) ==
    update_order([i \in 1..Len(ts) |->
        IF i = from + 1 THEN ts[to + 1] ELSE IF i = to + 1 THEN ts[from + 1] ELSE ts[i]])

\* TodoList::reorder past its bounds check
reorder(ts, from, to) == update_order(vec_insert(vec_remove(ts, from), to, ts[from + 1]))

\* Vec::sort with Task's ordering: each task is inserted after the tasks that
\* do not sort after it, which keeps equal tasks in their order (stable)
RECURSIVE sort_insert(_, _)
sort_insert(sorted, t) ==
    IF sorted = <<>> THEN <<t>>
    ELSE IF cmp_less(t, Head(sorted)) THEN <<t>> \o sorted
    ELSE <<Head(sorted)>> \o sort_insert(Tail(sorted), t)

RECURSIVE sort(_)
sort(ts) ==
    IF ts = <<>> THEN <<>>
    ELSE sort_insert(sort(SubSeq(ts, 1, Len(ts) - 1)), ts[Len(ts)])

\* A mutant of print_row: a task due today is not overdue
print_row_strict(task, now) ==
    [order    |-> task.order,
     due_date |-> IF task.due_date # MAX THEN FormatDate(task.due_date) ELSE <<>>,
     name     |-> task.name,
     overdue  |-> DateLess(task.due_date, now)]

\* One row print_tasks prints: the order, the date column (empty for the
\* sentinel), the name, and whether the row is coloured as overdue
print_row(task, now) ==
    [order    |-> task.order,
     due_date |-> IF task.due_date # MAX THEN FormatDate(task.due_date) ELSE <<>>,
     name     |-> task.name,
     overdue  |-> DateLeq(task.due_date, now)]

\* print_tasks: the rows printed for ts when the local date is now
print_tasks(ts, now) == [i \in 1..Len(ts) |-> print_row(ts[i], now)]

\* ------------------------------------------------------------ the inputs
\* Task names given to add: empty, plain, ending in a space, holding a comma,
\* holding a line feed
Names == { <<>>, <<"a">>, <<"a", " ">>, <<"b", ",", "c">>, <<"a", "\n", "a">> }

\* Due date texts given to add: two dates and a text that is no date
DateTexts ==
    { <<"2", "0", "2", "4", "-", "0", "1", "-", "0", "5">>,
      <<"2", "0", "2", "3", "-", "1", "2", "-", "3", "1">>,
      <<"2", "0", "2", "4", "-", "0", "2", "-", "3", "0">> }

\* Position texts given to remove and move
PositionTexts == { <<"0">>, <<"1">>, <<"2">>, <<"3">>, <<"x">> }

\* The local date when tasks are printed
Todays == { Date(2023, 12, 30), Date(2023, 12, 31), Date(2024, 1, 5) }

\* The storage file before the first invocation: missing, empty, a file with
\* blank lines, padded lines and a name holding a comma, a file with a line
\* without a comma, a line whose date text is no date and a line whose date
\* text is no day of the calendar, and a file of three different tasks
InitFiles ==
    { NoFile,
      FileOf(<<>>),
      FileOf(<<"2", "0", "2", "4", "-", "0", "1", "-", "0", "5", ",", "a", "\n",
               ",", "b", ",", "c", "\n",
               "2", "0", "2", "3", "-", "1", "2", "-", "3", "1", ",", "\n">>),
      FileOf(<<"\n", " ", "2", "0", "2", "4", "-", "0", "1", "-", "0", "5", ",", "a", " ", "\n",
               "\n", ",", "b", ",", "c">>),
      FileOf(<<"a", "\n", "x", ",", "a", "\n",
               "2", "0", "2", "4", "-", "0", "2", "-", "3", "0", ",", "a", "\n">>) }

\* usize::from_str_radix(text, 10): ok is FALSE for Err. (The overflow error
\* needs twenty digits, more than any position text of the model has.)
ParseUsize(text) ==
    LET digits == IF text # <<>> /\ Head(text) = "+" THEN Tail(text) ELSE text
        n      == DigitRun(digits, Len(digits))
    IN  IF digits = <<>> \/ n # Len(digits)
        THEN [ok |-> FALSE, val |-> 0]
        ELSE [ok |-> TRUE, val |-> DigitsValue(digits)]

\* What print_usage writes to the error stream
USAGE == "Usage:"

\* -------------------------------------------------------------- the state
VARIABLES
    file,           \* the storage file .todo
    pc,             \* where the invocation is: idle, loaded, dispatched, exited
    tasks,          \* list.tasks
    is_modified,    \* parse_command's is_modified
    given,          \* whether a command argument was given
    command,        \* parse_command's command
    args,           \* the arguments after the command
    exit_code,      \* the process's exit code, -1 while it runs
    err,            \* what was written to the error stream, in order
    out,            \* the rows print_tasks printed
    now,            \* the local date print_tasks read
    file0,          \* history: the storage file when the invocation started
    loaded,         \* history: list.tasks as load returned it
    saves,          \* history: the calls of save in this invocation
    other           \* the same variables of a second process, while it does
                    \* not take a step (all but file, which the two share)

vars == <<file, pc, tasks, is_modified, given, command, args, exit_code, err,
          out, now, file0, loaded, saves, other>>

\* The date in now before print_tasks has read the clock
NotRead == Date(1, 1, 1)

\* A process that has not started; it has read no file yet
NotStarted ==
    [pc |-> "idle", tasks |-> <<>>, is_modified |-> FALSE, given |-> FALSE,
     command |-> "list", args |-> <<>>, exit_code |-> -1, err |-> <<>>, out |-> <<>>,
     now |-> NotRead, file0 |-> NoFile, loaded |-> <<>>, saves |-> 0]

Init ==
    /\ file \in InitFiles
    /\ other = NotStarted
    /\ pc = "idle"
    /\ tasks = <<>>
    /\ is_modified = FALSE
    /\ given = FALSE
    /\ command = "list"
    /\ args = <<>>
    /\ exit_code = -1
    /\ err = <<>>
    /\ out = <<>>
    /\ now = NotRead
    /\ file0 = file
    /\ loaded = <<>>
    /\ saves = 0

\* A process starts and parse_command loads the list (lines 169-172)
Load ==
    /\ pc \in {"idle", "exited"}
    /\ pc' = "loaded"
    /\ tasks' = load(file)
    /\ is_modified' = FALSE
    /\ given' = FALSE
    /\ command' = "list"
    /\ args' = <<>>
    /\ exit_code' = -1
    /\ err' = <<>>
    /\ out' = <<>>
    /\ now' = NotRead
    /\ file0' = file
    /\ loaded' = load(file)
    /\ saves' = 0
    /\ UNCHANGED <<file, other>>

\* The command and arguments the process was started with
Arguments(g, c, a) == given' = g /\ command' = c /\ args' = a

\* A mutant of Exit1: the message is written but the process does not exit
Exit1_goes_on(msgs) == pc' = "dispatched" /\ exit_code' = -1 /\ err' = msgs

\* process::exit(1) after writing msgs to the error stream
Exit1(msgs) == pc' = "exited" /\ exit_code' = 1 /\ err' = msgs

\* A mutant of Returns: every command marks the list as modified
Returns_modified(modified) ==
    /\ pc' = "dispatched"
    /\ is_modified' = TRUE
    /\ UNCHANGED <<exit_code, err>>

\* The command returns to parse_command, which has set is_modified
Returns(modified) ==
    /\ pc' = "dispatched"
    /\ is_modified' = modified
    /\ UNCHANGED <<exit_code, err>>

\* "list", also the default: list.print()
CmdList ==
    /\ pc = "loaded"
    /\ \E g \in BOOLEAN : Arguments(g, "list", <<>>)
    /\ \E today \in Todays : now' = today /\ out' = print_tasks(tasks, today)
    /\ Returns(FALSE)
    /\ UNCHANGED <<file, tasks, file0, loaded, saves, other>>

\* A mutant of CmdDate: the list itself is sorted, not a clone of it
CmdDate_in_place ==
    /\ pc = "loaded"
    /\ Arguments(TRUE, "date", <<>>)
    /\ tasks' = sort(tasks)
    /\ \E today \in Todays : now' = today /\ out' = print_tasks(sort(tasks), today)
    /\ Returns(FALSE)
    /\ UNCHANGED <<file, file0, loaded, saves, other>>

\* "date": list.print_by_due_date()
CmdDate ==
    /\ pc = "loaded"
    /\ Arguments(TRUE, "date", <<>>)
    /\ \E today \in Todays : now' = today /\ out' = print_tasks(sort(tasks), today)
    /\ Returns(FALSE)
    /\ UNCHANGED <<file, tasks, file0, loaded, saves, other>>

\* "help", "--help", "-h": print_usage()
CmdHelp ==
    /\ pc = "loaded"
    /\ \E c \in {"help", "--help", "-h"} : Arguments(TRUE, c, <<>>)
    /\ pc' = "dispatched"
    /\ err' = <<USAGE>>
    /\ UNCHANGED <<file, tasks, is_modified, exit_code, out, now, file0, loaded, saves, other>>

\* Any other command
CmdUnknown ==
    /\ pc = "loaded"
    /\ \E c \in {"delete", "List"} : Arguments(TRUE, c, <<>>)
    /\ Exit1(<<"Error unknown command", USAGE>>)
    /\ UNCHANGED <<file, tasks, is_modified, out, now, file0, loaded, saves, other>>

\* The argument lists of add: nothing, a name, a name and a due date text
AddArgs == {<<>>} \cup {<<n>> : n \in Names} \cup {<<n, t>> : n \in Names, t \in DateTexts}

\* "add": parse_add and TodoList::add
CmdAdd ==
    /\ pc = "loaded"
    /\ \E a \in AddArgs :
        /\ Arguments(TRUE, "add", a)
        /\ IF a = <<>>
           THEN /\ Exit1(<<"Error no task provided to add command", USAGE>>)
                /\ UNCHANGED <<tasks, is_modified>>
           ELSE /\ Len(tasks) < MaxTasks
                /\ LET date_text == IF Len(a) >= 2 THEN a[2] ELSE <<>>
                   IN  tasks' = add(tasks, a[1], ParseDueDate(date_text))
                /\ Returns(TRUE)
    /\ UNCHANGED <<file, out, now, file0, loaded, saves, other>>

\* The argument lists of remove: nothing, or a position text
RemoveArgs == {<<>>} \cup {<<p>> : p \in PositionTexts}

\* "remove": parse_remove and TodoList::remove
CmdRemove ==
    /\ pc = "loaded"
    /\ \E a \in RemoveArgs :
        /\ Arguments(TRUE, "remove", a)
        /\ IF a = <<>>
           THEN /\ Exit1(<<"Error no position provided to remove command", USAGE>>)
                /\ UNCHANGED <<tasks, is_modified>>
           ELSE LET position == ParseUsize(a[1])
                IN  IF ~position.ok
                    THEN /\ Exit1(<<"Error invalid position provided to remove command">>)
                         /\ UNCHANGED <<tasks, is_modified>>
                    ELSE IF position.val < 1
                    THEN /\ Exit1(<<"Error position cannot be < 1">>)
                         /\ UNCHANGED <<tasks, is_modified>>
                    ELSE IF remove_rejects(tasks, position.val - 1)
                    THEN /\ Exit1(<<"Error position must be between 1 and len">>)
                         /\ UNCHANGED <<tasks, is_modified>>
                    ELSE /\ tasks' = remove(tasks, position.val - 1)
                         /\ Returns(TRUE)
    /\ UNCHANGED <<file, out, now, file0, loaded, saves, other>>

\* The argument lists of move: nothing, one position text, or two
MoveArgs ==
    {<<>>} \cup {<<p>> : p \in PositionTexts}
           \cup {<<p, q>> : p \in PositionTexts, q \in PositionTexts}

\* "move": parse_move and TodoList::reorder
CmdMove ==
    /\ pc = "loaded"
    /\ \E a \in MoveArgs :
        /\ Arguments(TRUE, "move", a)
        /\ IF a = <<>>
           THEN /\ Exit1(<<"Error no from position provided to move command", USAGE>>)
                /\ UNCHANGED <<tasks, is_modified>>
           ELSE IF ~ParseUsize(a[1]).ok
           THEN /\ Exit1(<<"Error invalid from position provided to move command">>)
                /\ UNCHANGED <<tasks, is_modified>>
           ELSE IF Len(a) < 2
           THEN /\ Exit1(<<"Error no to position provided to move command", USAGE>>)
                /\ UNCHANGED <<tasks, is_modified>>
           ELSE IF ~ParseUsize(a[2]).ok
           THEN /\ Exit1(<<"Error invalid to position provided to move command">>)
                /\ UNCHANGED <<tasks, is_modified>>
           ELSE LET from == ParseUsize(a[1]).val
                    to   == ParseUsize(a[2]).val
                IN  IF from < 1 \/ to < 1
                    THEN /\ Exit1(<<"Error positions cannot be < 1">>)
                         /\ UNCHANGED <<tasks, is_modified>>
                    ELSE IF reorder_rejects(tasks, from - 1, to - 1)
                    THEN /\ Exit1(<<"Error positions must be between 1 and len">>)
                         /\ UNCHANGED <<tasks, is_modified>>
                    ELSE /\ tasks' = reorder(tasks, from - 1, to - 1)
                         /\ Returns(TRUE)
    /\ UNCHANGED <<file, out, now, file0, loaded, saves, other>>

\* parse_command returns without saving: is_modified is false (line 211)
Return ==
    /\ pc = "dispatched"
    /\ ~is_modified
    /\ pc' = "exited"
    /\ exit_code' = 0
    /\ UNCHANGED <<file, tasks, is_modified, given, command, args, err, out, now,
                   file0, loaded, saves, other>>

\* A mutant of SaveOk: the file is opened for appending, not created anew
SaveOk_append ==
    /\ pc = "dispatched"
    /\ is_modified
    /\ file' = FileOf(read_to_string(file) \o save_text(tasks))
    /\ saves' = saves + 1
    /\ pc' = "exited"
    /\ exit_code' = 0
    /\ UNCHANGED <<tasks, is_modified, given, command, args, err, out, now, file0, loaded, other>>

\* A mutant of SaveOk: the list is saved as it was loaded, as if save ran
\* before the command
SaveOk_before ==
    /\ pc = "dispatched"
    /\ is_modified
    /\ file' = FileOf(save_text(loaded))
    /\ saves' = saves + 1
    /\ pc' = "exited"
    /\ exit_code' = 0
    /\ UNCHANGED <<tasks, is_modified, given, command, args, err, out, now, file0, loaded, other>>

\* list.save() succeeds: the file holds one line per task
SaveOk ==
    /\ pc = "dispatched"
    /\ is_modified
    /\ file' = FileOf(save_text(tasks))
    /\ saves' = saves + 1
    /\ pc' = "exited"
    /\ exit_code' = 0
    /\ UNCHANGED <<tasks, is_modified, given, command, args, err, out, now, file0, loaded, other>>

\* list.save() fails in File::create, which leaves the file as it is
SaveCreateFails ==
    /\ pc = "dispatched"
    /\ is_modified
    /\ saves' = saves + 1
    /\ Exit1(<<"Error saving todo list to .todo", "{err}">>)
    /\ UNCHANGED <<file, tasks, is_modified, given, command, args, out, now, file0, loaded, other>>

\* list.save() fails in a write after File::create emptied the file and the
\* lines of the first k tasks were written
SaveWriteFails ==
    /\ pc = "dispatched"
    /\ is_modified
    /\ \E k \in 0..(Len(tasks) - 1) : file' = FileOf(save_text(SubSeq(tasks, 1, k)))
    /\ saves' = saves + 1
    /\ Exit1(<<"Error saving todo list to .todo", "{err}">>)
    /\ UNCHANGED <<tasks, is_modified, given, command, args, out, now, file0, loaded, other>>

Next ==
    \/ Load
    \/ CmdList
    \/ CmdDate
    \/ CmdHelp
    \/ CmdUnknown
    \/ CmdAdd
    \/ CmdRemove
    \/ CmdMove
    \/ Return
    \/ SaveOk
    \/ SaveCreateFails
    \/ SaveWriteFails

Spec == Init /\ [][Next]_vars

\* ------------------------------------------- two invocations at a time
\* Two processes run parse_command with mutating commands over the same
\* .todo; nothing orders their steps (the code takes no lock). The variables
\* hold the process that takes steps and other holds the second one; Switch
\* lets the second one take the next steps.
Switch ==
    /\ other' = [pc |-> pc, tasks |-> tasks, is_modified |-> is_modified, given |-> given,
                 command |-> command, args |-> args, exit_code |-> exit_code, err |-> err,
                 out |-> out, now |-> now, file0 |-> file0, loaded |-> loaded,
                 saves |-> saves]
    /\ pc' = other.pc
    /\ tasks' = other.tasks
    /\ is_modified' = other.is_modified
    /\ given' = other.given
    /\ command' = other.command
    /\ args' = other.args
    /\ exit_code' = other.exit_code
    /\ err' = other.err
    /\ out' = other.out
    /\ now' = other.now
    /\ file0' = other.file0
    /\ loaded' = other.loaded
    /\ saves' = other.saves
    /\ UNCHANGED file

\* Each of the two processes is started once
LoadOnce == pc = "idle" /\ Load

NextRace ==
    \/ LoadOnce
    \/ CmdAdd
    \/ CmdRemove
    \/ CmdMove
    \/ SaveOk
    \/ SaveCreateFails
    \/ SaveWriteFails
    \/ Switch

SpecRace == Init /\ [][NextRace]_vars

\* ------------------------------------------------ the Task Store as a library
\* A caller that loads a list and then calls add, remove and reorder on it any
\* number of times, as the tests of lib.rs do. command names the last call
\* and loaded holds the tasks before it.
InitLib ==
    /\ file \in InitFiles
    /\ other = NotStarted
    /\ pc = "loaded"
    /\ tasks = load(file)
    /\ is_modified = FALSE
    /\ given = FALSE
    /\ command = "load"
    /\ args = <<>>
    /\ exit_code = -1
    /\ err = <<>>
    /\ out = <<>>
    /\ now = NotRead
    /\ file0 = file
    /\ loaded = tasks
    /\ saves = 0

\* The due dates a caller passes to add
DueDates == { MAX, Date(2024, 1, 5), Date(2023, 12, 31) }

\* The variables a call on the list leaves alone
LibFrame ==
    UNCHANGED <<file, pc, is_modified, given, args, exit_code, err, out, now, file0, saves,
                other>>

\* list.add(name, due_date)
LibAdd ==
    /\ Len(tasks) < MaxTasks
    /\ \E name \in Names, due_date \in DueDates : tasks' = add(tasks, name, due_date)
    /\ command' = "add"
    /\ loaded' = tasks
    /\ LibFrame

\* list.remove(index), a call that passes the bounds check
LibRemove ==
    /\ \E index \in 0..MaxTasks :
        /\ ~remove_rejects(tasks, index)
        /\ tasks' = remove(tasks, index)
    /\ command' = "remove"
    /\ loaded' = tasks
    /\ LibFrame

\* list.reorder(from, to), a call that passes the bounds check
LibReorder ==
    /\ \E from \in 0..MaxTasks, to \in 0..MaxTasks :
        /\ ~reorder_rejects(tasks, from, to)
        /\ tasks' = reorder(tasks, from, to)
    /\ command' = "move"
    /\ loaded' = tasks
    /\ LibFrame

NextLib ==
    \/ LibAdd
    \/ LibRemove
    \/ LibReorder

SpecLib == InitLib /\ [][NextLib]_vars

\* ------------------------------------------------------------- properties
\* The (name, due_date) pair of a task, and of every task of a list
Pair(t) == <<t.name, t.due_date>>
Pairs(ts) == [i \in 1..Len(ts) |-> Pair(ts[i])]

\* The command has been executed
Executed == pc \in {"dispatched", "exited"}

\* Command c was executed and changed the list
Succeeded(c) == Executed /\ command = c /\ is_modified

\* save was called and returned Ok
Saved == pc = "exited" /\ saves = 1 /\ exit_code = 0

\* C1: after load and any sequence of successful add, remove and reorder
\* calls, the task at zero-based index i has order i + 1.
C1_OrderIsPosition == \A i \in 1..Len(tasks) : tasks[i].order = i

\* C1 witness: a reorder that changed a list which earlier calls had built
C1_Witness ==
    /\ command = "move"
    /\ Len(tasks) >= 2
    /\ Pairs(tasks) # Pairs(loaded)
    /\ tasks # load(file)

\* C2: the file is written only by a mutating command; after list, date,
\* help, --help, -h and the default command save was never called and the
\* file is as it was when the invocation started.
C2_ReadOnlyNeverSaves ==
    /\ (Executed /\ command \in {"list", "date", "help", "--help", "-h"})
            => (~is_modified /\ saves = 0 /\ file = file0)
    /\ saves > 0 => command \in {"add", "remove", "move"}

\* C2 witness: the default command has run to its exit over a file with tasks
C2_Witness ==
    /\ pc = "exited"
    /\ ~given
    /\ command = "list"
    /\ loaded # <<>>
    /\ out # <<>>

\* C3: after a successful save, load of the same file gives the same
\* (name, due_date) pairs in the same positions.
C3_RoundTrip == Saved => Pairs(load(file)) = Pairs(tasks)

\* The line C4 describes for a task: the date field is empty for the sentinel
C4_Line(task) ==
    (IF task.due_date = MAX THEN <<>> ELSE FormatDate(task.due_date))
        \o <<",">> \o task.name \o <<"\n">>

RECURSIVE C4_Text(_)
C4_Text(ts) == IF ts = <<>> THEN <<>> ELSE C4_Line(Head(ts)) \o C4_Text(Tail(ts))

\* C4: a successful save leaves one line due_date,name per task, in list
\* order, and the date field of a task without a due date is empty.
C4_SentinelWrittenEmpty == Saved => file = FileOf(C4_Text(tasks))

\* The zero-based positions given to a move that parsed both
MoveFrom == ParseUsize(args[1]).val - 1
MoveTo == ParseUsize(args[2]).val - 1

\* The zero-based index before the move of the task that is at zero-based
\* index k after it: the moved task at to; the others in their old order
C5_SourceIndex(k, from, to) ==
    IF k = to THEN from
    ELSE LET r == IF k > to THEN k - 1 ELSE k
         IN  IF r >= from THEN r + 1 ELSE r

\* C5: a successful reorder(from, to) puts the task that was at from at index
\* to and keeps the other tasks in their relative order.
C5_ReorderIsRemoveInsert ==
    Succeeded("move") =>
        /\ Len(tasks) = Len(loaded)
        /\ \A k \in 0..(Len(tasks) - 1) :
                Pair(tasks[k + 1]) = Pair(loaded[C5_SourceIndex(k, MoveFrom, MoveTo) + 1])

\* C5 witness: the first of three different tasks was moved to the end
C5_Witness ==
    /\ Succeeded("move")
    /\ Len(loaded) = 3
    /\ MoveFrom = 0
    /\ MoveTo = 2
    /\ Cardinality({Pair(loaded[i]) : i \in 1..3}) = 3
    /\ Pairs(tasks) = <<Pair(loaded[2]), Pair(loaded[3]), Pair(loaded[1])>>

\* A position text of the command parses to 0 or to more than the length
C6_OutOfRange ==
    \E i \in 1..Len(args) :
        /\ ParseUsize(args[i]).ok
        /\ (ParseUsize(args[i]).val = 0 \/ ParseUsize(args[i]).val > Len(loaded))

\* C6: remove or move with a position of 0 or a position greater than the
\* length exits with a user error; the list is not changed and the file is
\* not written.
C6_BoundaryRejected ==
    (Executed /\ command \in {"remove", "move"} /\ C6_OutOfRange) =>
        /\ pc = "exited"
        /\ exit_code = 1
        /\ err # <<>>
        /\ tasks = loaded
        /\ saves = 0
        /\ file = file0

\* C6 witness: a remove of position length + 1 from a list with tasks
C6_Witness ==
    /\ pc = "exited"
    /\ command = "remove"
    /\ loaded # <<>>
    /\ args # <<>>
    /\ ParseUsize(args[1]).ok
    /\ ParseUsize(args[1]).val = Len(loaded) + 1

\* The zero-based index given to a remove that parsed it
RemoveIndex == ParseUsize(args[1]).val - 1

\* C7: a successful remove(i) leaves the other tasks in their order, with
\* their names and due dates, and their orders are 1..(N-1).
C7_RemoveDeletesOne ==
    Succeeded("remove") =>
        /\ Len(tasks) = Len(loaded) - 1
        /\ \A j \in 1..Len(tasks) :
            /\ Pair(tasks[j]) = Pair(loaded[IF j <= RemoveIndex THEN j ELSE j + 1])
            /\ tasks[j].order = j

\* C7 witness: the first of at least two tasks was removed
C7_Witness ==
    /\ Succeeded("remove")
    /\ RemoveIndex = 0
    /\ Len(tasks) >= 1
    /\ Pair(loaded[1]) # Pair(loaded[2])

\* C8: add with a name, the empty name too, is never rejected; it appends one
\* task with that name and due date and order N + 1, and the N tasks before
\* it are unchanged.
C8_AddAppends ==
    (Executed /\ command = "add" /\ args # <<>>) =>
        /\ is_modified
        /\ Len(tasks) = Len(loaded) + 1
        /\ SubSeq(tasks, 1, Len(loaded)) = loaded
        /\ tasks[Len(tasks)].name = args[1]
        /\ tasks[Len(tasks)].due_date
              = ParseDueDate(IF Len(args) >= 2 THEN args[2] ELSE <<>>)
        /\ tasks[Len(tasks)].order = Len(loaded) + 1

\* C8 witness: the empty name was added to a list that had a task
C8_Witness ==
    /\ Succeeded("add")
    /\ args[1] = <<>>
    /\ loaded # <<>>

\* The due date of the task a printed row shows
C9_Due(row) == loaded[row.order].due_date

\* C9: the by-date display shows every task once, by due date and then by
\* order; tasks without a due date come after all tasks with one.
C9_SortedByDate ==
    (Executed /\ command = "date") =>
        /\ Len(out) = Len(loaded)
        /\ {out[i].order : i \in 1..Len(out)} = 1..Len(loaded)
        /\ \A i \in 1..Len(out) : out[i].name = loaded[out[i].order].name
        /\ \A i \in 1..Len(out) : \A j \in (i + 1)..Len(out) :
            /\ DateLeq(C9_Due(out[i]), C9_Due(out[j]))
            /\ C9_Due(out[i]) = C9_Due(out[j]) => out[i].order < out[j].order
            /\ C9_Due(out[i]) = MAX => C9_Due(out[j]) = MAX

\* C9 witness: a task without a due date stored before a task with one, and
\* two tasks with equal due dates
C9_Witness ==
    /\ Executed
    /\ command = "date"
    /\ \E i \in 1..Len(loaded) : \E j \in (i + 1)..Len(loaded) :
            loaded[i].due_date = MAX /\ loaded[j].due_date # MAX
    /\ \E i \in 1..Len(loaded) : \E j \in (i + 1)..Len(loaded) :
            loaded[i].due_date = loaded[j].due_date

\* C10: a displayed task is shown as overdue exactly when it has a due date
\* and that date is not after the local date.
C10_OverdueIffDue ==
    (Executed /\ command \in {"list", "date"}) =>
        \A i \in 1..Len(out) :
            out[i].overdue <=>
                (C9_Due(out[i]) # MAX /\ ~DateLess(now, C9_Due(out[i])))

\* C10 witness: one display with a task due today, a task due later and a
\* task without a due date
C10_Witness ==
    /\ Executed
    /\ command \in {"list", "date"}
    /\ \E i \in 1..Len(out) : C9_Due(out[i]) = now /\ out[i].overdue
    /\ \E i \in 1..Len(out) : DateLess(now, C9_Due(out[i])) /\ C9_Due(out[i]) # MAX
    /\ \E i \in 1..Len(out) : C9_Due(out[i]) = MAX /\ ~out[i].overdue

\* The file's lines as load sees them: each trimmed, the blank ones left out
C12_NotBlank(line) == line # <<>>
C12_Trimmed(text) == LET ls == Lines(text) IN [i \in 1..Len(ls) |-> Trim(ls[i])]
C12_NonBlankLines(f) == SelectSeq(C12_Trimmed(read_to_string(f)), C12_NotBlank)

\* The text before the first comma of a line, empty when it has no comma
C11_DateText(line) ==
    IF \E i \in 1..Len(line) : line[i] = ","
    THEN SubSeq(line, 1, (CHOOSE i \in 1..Len(line) :
                             line[i] = "," /\ \A j \in 1..(i - 1) : line[j] # ",") - 1)
    ELSE <<>>

\* A text of the shape YYYY-MM-DD
C11_Shaped(text) ==
    /\ Len(text) = 10
    /\ \A i \in {1, 2, 3, 4, 6, 7, 9, 10} : IsDigit(text[i])
    /\ text[5] = "-" /\ text[8] = "-"

\* A text that is plainly no date: empty, holding a character no date has, or
\* of the shape YYYY-MM-DD but naming no day of the calendar
C11_Malformed(text) ==
    \/ text = <<>>
    \/ \E i \in 1..Len(text) : ~IsDigit(text[i]) /\ text[i] \notin {"-", "+", " "}
    \/ /\ C11_Shaped(text)
       /\ LET m == DigitVal(text[6]) * 10 + DigitVal(text[7])
              d == DigitVal(text[9]) * 10 + DigitVal(text[10])
              y == DigitsValue(SubSeq(text, 1, 4))
          IN  m < 1 \/ m > 12 \/ d < 1 \/ d > DaysInMonth(y, m)

\* C11: load never fails: a missing or empty file gives the empty list, no
\* line is dropped for its date text, and a line whose date text is empty or
\* is not accepted as a %Y-%m-%d date gives a task with the sentinel date.
C11_LoadDefaults ==
    pc # "idle" =>
        /\ (~file0.exists \/ file0.text = <<>>) => loaded = <<>>
        /\ Len(loaded) = Len(C12_NonBlankLines(file0))
        /\ \A k \in 1..Len(loaded) :
            LET text == C11_DateText(C12_NonBlankLines(file0)[k])
            IN  (C11_Malformed(text) \/ ~ParseDate(text).ok) => loaded[k].due_date = MAX

\* C11 witness: a loaded file with a line without a date text, a line whose
\* date text has a letter and a line whose date text is the 30th of February
C11_Witness ==
    /\ pc = "loaded"
    /\ \E k \in 1..Len(loaded) : C11_DateText(C12_NonBlankLines(file0)[k]) = <<>>
    /\ \E k \in 1..Len(loaded) : C11_DateText(C12_NonBlankLines(file0)[k]) = <<"x">>
    /\ \E k \in 1..Len(loaded) : C11_Shaped(C11_DateText(C12_NonBlankLines(file0)[k]))
    /\ \A k \in 1..Len(loaded) : loaded[k].due_date = MAX

\* The lines joined again, each with its line feed
RECURSIVE C12_Join(_)
C12_Join(ls) == IF ls = <<>> THEN <<>> ELSE Head(ls) \o <<"\n">> \o C12_Join(Tail(ls))

\* ls are the lines of text: none holds a line feed, and joined they give the
\* text, up to the line feed of the last line
C12_AreLines(ls, text) ==
    /\ \A i \in 1..Len(ls) : \A j \in 1..Len(ls[i]) : ls[i][j] # "\n"
    /\ (C12_Join(ls) = text \/ C12_Join(ls) = text \o <<"\n">>)

\* The task is what the line says: split at the first comma, the date text
\* before it and the name after it; without a comma the line is the name
C12_TaskOfLine(task, line) ==
    \/ /\ \A i \in 1..Len(line) : line[i] # ","
       /\ task.name = line
       /\ task.due_date = MAX
    \/ \E i \in 1..Len(line) :
        /\ line[i] = ","
        /\ \A j \in 1..(i - 1) : line[j] # ","
        /\ task.name = SubSeq(line, i + 1, Len(line))
        /\ task.due_date = ParseDueDate(SubSeq(line, 1, i - 1))

\* C12: load gives one task per non-blank line, in line order, numbered from
\* 1 without counting blank lines; the name is all that follows the first
\* comma, and a line without a comma is an undated task named by the line.
C12_OneTaskPerLine ==
    pc # "idle" =>
        /\ C12_AreLines(Lines(read_to_string(file0)), read_to_string(file0))
        /\ Len(loaded) = Len(C12_NonBlankLines(file0))
        /\ \A k \in 1..Len(loaded) :
            /\ loaded[k].order = k
            /\ C12_TaskOfLine(loaded[k], C12_NonBlankLines(file0)[k])

\* C12 witness: a loaded file with a blank line before a task, a name that
\* holds a comma and a task after it
C12_Witness ==
    /\ pc = "loaded"
    /\ \E i \in 1..Len(Lines(file0.text)) : Trim(Lines(file0.text)[i]) = <<>>
    /\ Len(Lines(file0.text)) > Len(loaded)
    /\ \E k \in 1..Len(loaded) : loaded[k].name = <<"b", ",", "c">>

\* The invocation was given a user input error: add without a name, remove
\* or move with a position missing or not a number, or an unknown command
InputError ==
    \/ command = "add" /\ args = <<>>
    \/ command = "remove" /\ (args = <<>> \/ ~ParseUsize(args[1]).ok)
    \/ command = "move" /\ (Len(args) < 2 \/ \E i \in 1..2 : ~ParseUsize(args[i]).ok)
    \/ command \notin {"list", "date", "add", "remove", "move", "help", "--help", "-h"}

\* save was called and returned an error
SaveFailed == pc = "exited" /\ saves = 1 /\ exit_code = 1

\* C13: an invocation exits with 0 on success and on the read-only and help
\* paths, and with 1 on a validation error or a save failure; on every exit
\* with 1 an error message and then the usage text were written to the error
\* stream.
C13_ExitCodeAndUsage ==
    pc = "exited" =>
        /\ exit_code \in {0, 1}
        /\ command \in {"list", "date", "help", "--help", "-h"} => exit_code = 0
        /\ Saved => exit_code = 0
        /\ (InputError \/ (command \in {"remove", "move"} /\ C6_OutOfRange) \/ SaveFailed)
                => exit_code = 1
        /\ exit_code = 1 =>
            /\ Len(err) >= 2
            /\ err[1] # USAGE
            /\ err[Len(err)] = USAGE

\* The place of a step of one invocation in the order load, command, save
\* or return, exit
C14_Rank(p) == IF p = "loaded" THEN 1 ELSE IF p = "dispatched" THEN 2 ELSE IF p = "exited" THEN 3 ELSE 0

\* One step of an invocation, in its order: the first step is the load of the
\* file as it is; the step from loaded is the one command, which writes
\* nothing; the step from dispatched is the exit, with at most one save, of
\* the list the command left
C14_Step ==
    /\ pc \in {"idle", "exited"} =>
            pc' = "loaded" /\ tasks' = load(file) /\ file' = file /\ saves' = 0
    /\ pc = "loaded" =>
            /\ pc' \in {"dispatched", "exited"}
            /\ file' = file /\ saves' = 0
            /\ loaded' = loaded
            /\ tasks' # tasks => is_modified'
    /\ pc = "dispatched" =>
            /\ pc' = "exited"
            /\ tasks' = tasks
            /\ saves' \in {0, 1}
            /\ saves' = 1 <=> is_modified
            /\ saves' = 0 => file' = file
            /\ (saves' = 1 /\ exit_code' = 0) => file' = FileOf(save_text(tasks))
    /\ C14_Rank(pc') > C14_Rank(pc) \/ (pc = "exited" /\ pc' = "loaded")

\* C14: an invocation performs load, then one command, then at most one save
\* of the list the command left, then exits; no step waits: after the load the
\* command can be taken and after the command the return or the save, and
\* each step moves on in that order.
C14_LoadCommandSaveExit ==
    /\ [][C14_Step]_vars
    /\ [](pc = "loaded" => ENABLED (CmdList \/ CmdDate \/ CmdHelp \/ CmdUnknown
                                        \/ CmdAdd \/ CmdRemove \/ CmdMove))
    /\ [](pc = "dispatched" => ENABLED (Return \/ SaveOk))
    /\ [](saves <= 1 /\ (pc = "idle" => file = file0) /\ (file # file0 => saves = 1))

\* C14 witness: an invocation that loaded tasks, changed the list and saved it
C14_Witness ==
    /\ Saved
    /\ loaded # <<>>
    /\ tasks # loaded
    /\ file # file0
    /\ file = FileOf(save_text(tasks))

\* C15: the by-date display changes nothing: after it the task sequence and
\* every task's name, due date and order are as loaded, and the file, which
\* the next listing reads, is as it was.
C15_DateDisplayMutatesNothing ==
    (Executed /\ command = "date") =>
        /\ tasks = loaded
        /\ ~is_modified
        /\ saves = 0
        /\ file = file0

\* C15 witness: a by-date display that showed the tasks in another order than
\* the stored one has run to its exit
C15_Witness ==
    /\ pc = "exited"
    /\ command = "date"
    /\ Len(out) >= 2
    /\ \E i \in 1..Len(out) : out[i].order # i
    /\ tasks = loaded

\* How often pair p occurs among the tasks ts
C17_Count(ts, p) == Cardinality({i \in 1..Len(ts) : Pair(ts[i]) = p})

\* Both positions of a move parsed and lie in 1..N
C17_InRange ==
    /\ Len(args) >= 2
    /\ \A i \in 1..2 :
        /\ ParseUsize(args[i]).ok
        /\ ParseUsize(args[i]).val >= 1
        /\ ParseUsize(args[i]).val <= Len(loaded)

\* C17: reorder with both indices in 0..N-1 is carried out: the insertion
\* index is within the list the removal left, the result has the tasks of
\* the original, each as often, and reorder(i, i) changes nothing.
C17_ReorderPermutes ==
    (Executed /\ command = "move" /\ C17_InRange) =>
        /\ is_modified
        /\ MoveTo <= Len(loaded) - 1
        /\ Len(tasks) = Len(loaded)
        /\ \A i \in 1..Len(loaded) :
                C17_Count(tasks, Pair(loaded[i])) = C17_Count(loaded, Pair(loaded[i]))
        /\ MoveFrom = MoveTo => tasks = loaded

\* C17 witness: a move to the last index, N - 1, of a list of N >= 2 tasks
\* in which two tasks are the same
C17_Witness ==
    /\ Succeeded("move")
    /\ Len(loaded) >= 2
    /\ MoveTo = Len(loaded) - 1
    /\ MoveFrom # MoveTo
    /\ \E i \in 1..Len(loaded) : C17_Count(loaded, Pair(loaded[i])) = 2

\* C18: an invocation given a user input error exits with 1 before save is
\* reached: save is not called and the file is as it was at the start.
C18_InputErrorWritesNothing ==
    (Executed /\ InputError) =>
        /\ pc = "exited"
        /\ exit_code = 1
        /\ ~is_modified
        /\ tasks = loaded
        /\ saves = 0
        /\ file = file0

\* C18 witness: a move whose second position is not a number, on a file with
\* tasks
C18_Witness ==
    /\ pc = "exited"
    /\ command = "move"
    /\ Len(args) = 2
    /\ ParseUsize(args[1]).ok
    /\ ~ParseUsize(args[2]).ok
    /\ loaded # <<>>
    /\ file0.exists

\* The second process called save and it returned Ok
OtherSaved == other.pc = "exited" /\ other.saves = 1 /\ other.exit_code = 0

\* C16: two invocations of mutating commands are not serialised: when both
\* have saved, the file is the list of one of them alone, written over what
\* the other saved, whatever the order of their loads and saves was.
C16_LastSaveOverwrites ==
    (Saved /\ OtherSaved) =>
        \/ file = FileOf(save_text(tasks))
        \/ file = FileOf(save_text(other.tasks))

\* C16 witness, a lost update: both processes loaded the same file, each
\* added a task and saved, and the file holds the task of one of them only
C16_Witness ==
    /\ Saved /\ OtherSaved
    /\ command = "add" /\ other.command = "add"
    /\ file0 = other.file0
    /\ args # other.args
    /\ args[1] = <<"a">> /\ other.args[1] = <<"b", ",", "c">>
    /\ file = FileOf(save_text(tasks))
    /\ Len(load(file)) = Len(load(file0)) + 1
    /\ \A k \in 1..Len(load(file)) : load(file)[k].name # other.args[1]

====
